---- MODULE Spec2Model ----
(***************************************************************************)
(* jsonpickle.ext.numpy: the ndarray handlers (nested, binary, view).      *)
(*                                                                         *)
(* Python values are tagged records [t, v]: t is the runtime type          *)
(* ("num", "list", "str"), v the value.  A handler's `data` dict is a      *)
(* function from key names to values; `k \in DOMAIN data` is `k in data`.  *)
(* An ndarray is a record [dtype, shape, strides, buf, off, base]: buf is  *)
(* the id of the byte buffer it reads, off the byte position of its first  *)
(* element in that buffer, base is 0 (None, the array owns its data), the  *)
(* id of another ndarray, or Foreign (an object that is not an ndarray).   *)
(*                                                                         *)
(* The interpreter is Python 3: obj.data is a memoryview there, and the    *)
(* view handler reads its attributes contiguous and c_contiguous.          *)
(***************************************************************************)
EXTENDS Integers, Sequences, FiniteSets, TLC

\* ---------------------------------------------------------------- bounds
MaxDim == 2        \* largest length of one dimension
MaxNdim == 2       \* largest number of dimensions
MaxThreshold == 3  \* largest size_treshold tried besides the class default
MaxTamper == 1     \* bytes a corrupted payload may lose or gain

VARIABLES
    size_treshold,  \* handler configuration: NoneT or a non-negative integer
    compression,    \* handler configuration: TRUE for zlib, FALSE for None
    mode,           \* handler configuration: "warn", "raise" or anything else
    pc,             \* "ready", "encoded", "encode_failed", "decoded", "decode_failed", "written"
    src,            \* the heap holding the objects given to encode, and the roots
    wire,           \* the flattened form of each root
    warned,         \* warnings.warn calls made by encode
    err,            \* the exception that ended the last call, "" for none
    out,            \* the heap decode built
    res,            \* the restored object of each root
    tamper          \* what was done to the payload between encode and decode

vars == <<size_treshold, compression, mode, pc, src, wire, warned, err,
          out, res, tamper>>

\* ------------------------------------------------------- program constants
DefaultSizeTreshold == 16   \* class attribute size_treshold
NoneT == 0 - 1              \* size_treshold = None
Foreign == 0 - 1            \* obj.base is an object that is not an ndarray

\* ------------------------------------------------------------- sequences
RECURSIVE Prod(_)
Prod(s) == IF s = <<>> THEN 1 ELSE Head(s) * Prod(Tail(s))

RECURSIVE Sum(_)
Sum(s) == IF s = <<>> THEN 0 ELSE Head(s) + Sum(Tail(s))

RECURSIVE Concat(_)
Concat(ss) == IF ss = <<>> THEN <<>> ELSE Head(ss) \o Concat(Tail(ss))

Reverse(s) == [i \in 1..Len(s) |-> s[Len(s) + 1 - i]]

Max2(a, b) == IF a >= b THEN a ELSE b
Min2(a, b) == IF a <= b THEN a ELSE b

\* ------------------------------------------------------------ python tags
PyNum(n) == [t |-> "num", v |-> n]
PyList(s) == [t |-> "list", v |-> s]
PyStr(s) == [t |-> "str", v |-> s]

\* isinstance(values, list)
IsList(x) == x.t = "list"

\* ------------------------------------------------------------------ dtype
\* The element types of the model: np.int8 and big-endian np.int16.
DTypes == {"int8", ">i2"}

ItemSize(dt) == IF dt = "int8" THEN 1 ELSE 2

\* unicode(dtype): the characters of the dtype's name
DTypeText(dt) ==
    IF dt = "int8" THEN <<"i", "n", "t", "8">> ELSE <<">", "i", "2">>

RecordPrefix ==
    <<"(", "n", "u", "m", "p", "y", ".", "r", "e", "c", "o", "r", "d", ",", " ">>

StartsWith(s, p) == Len(s) >= Len(p) /\ SubSeq(s, 1, Len(p)) = p

\* NumpyBaseHandler.flatten_dtype: np.dtype has no `tostring`, so the name is
\* written, without the "(numpy.record, " ... ")" wrapper when it has one.
flatten_dtype(dt, data) ==
    LET text == DTypeText(dt)
        stripped == IF StartsWith(text, RecordPrefix)
                    THEN SubSeq(text, Len(RecordPrefix) + 1, Len(text) - 1)
                    ELSE text
    IN  data @@ ("dtype" :> PyStr(stripped))

\* NumpyBaseHandler.restore_dtype: a literal for "[..."/"{...", else np.dtype(name).
\* "literal" stands for a structured layout, "TypeError" for an unknown name.
restore_dtype(data) ==
    LET text == data["dtype"].v
    IN  IF Len(text) > 0 /\ text[1] \in {"{", "["} THEN "literal"
        ELSE IF \E dt \in DTypes : DTypeText(dt) = text
             THEN CHOOSE dt \in DTypes : DTypeText(dt) = text
             ELSE "TypeError"

\* An element's value from its bytes, and back (int8 / big-endian int16).
ElemOfBytes(dt, bs) == IF dt = "int8" THEN bs[1] ELSE 256 * bs[1] + bs[2]
BytesOfElem(dt, n) == IF dt = "int8" THEN <<n>> ELSE <<n \div 256, n % 256>>

\* ---------------------------------------------------------- array layout
Size(shape) == Prod(shape)

\* numpy fills strides with every zero dimension counted as one.
Dim1(shape) == [i \in 1..Len(shape) |-> Max2(shape[i], 1)]

CStrides(shape, isz) ==
    [i \in 1..Len(shape) |-> isz * Prod(SubSeq(Dim1(shape), i + 1, Len(shape)))]
FStrides(shape, isz) ==
    [i \in 1..Len(shape) |-> isz * Prod(SubSeq(Dim1(shape), 1, i - 1))]
NaturalStrides(shape, isz, order) ==
    IF order = "F" THEN FStrides(shape, isz) ELSE CStrides(shape, isz)

\* flags.c_contiguous / flags.f_contiguous (dimensions of length 1 are free;
\* an array with no element is both).
c_contiguous(a) ==
    \/ \E i \in 1..Len(a.shape) : a.shape[i] = 0
    \/ \A i \in 1..Len(a.shape) :
          a.shape[i] = 1 \/ a.strides[i] = CStrides(a.shape, ItemSize(a.dtype))[i]
f_contiguous(a) ==
    \/ \E i \in 1..Len(a.shape) : a.shape[i] = 0
    \/ \A i \in 1..Len(a.shape) :
          a.shape[i] = 1 \/ a.strides[i] = FStrides(a.shape, ItemSize(a.dtype))[i]
contiguous(a) == c_contiguous(a) \/ f_contiguous(a)

\* The multi-index (0-based) of the k-th element (0-based) in C and in F order.
UnravelC(k, shape) ==
    [i \in 1..Len(shape) |-> (k \div Prod(SubSeq(shape, i + 1, Len(shape)))) % shape[i]]
UnravelF(k, shape) ==
    [i \in 1..Len(shape) |-> (k \div Prod(SubSeq(shape, 1, i - 1))) % shape[i]]
RavelC(idx, shape) ==
    Sum([i \in 1..Len(shape) |-> idx[i] * Prod(SubSeq(shape, i + 1, Len(shape)))])

\* Byte position (0-based) of element idx in the array's buffer.
ElemPos(a, idx) == a.off + Sum([i \in 1..Len(idx) |-> idx[i] * a.strides[i]])

\* The bytes of element idx.
ElemBytes(mem, a, idx) ==
    [j \in 1..ItemSize(a.dtype) |-> mem[a.buf][ElemPos(a, idx) + j]]

\* a[idx] as a python number
Item(mem, a, idx) == ElemOfBytes(a.dtype, ElemBytes(mem, a, idx))

\* The array's elements in logical (row-major) order.
Elements(mem, a) ==
    [k \in 1..Size(a.shape) |-> Item(mem, a, UnravelC(k - 1, a.shape))]

\* obj.tobytes(order=None): the converter leaves the default for None, so the
\* bytes are written in C (logical row-major) order whatever the layout.
tobytes(mem, a) ==
    Concat([k \in 1..Size(a.shape) |-> ElemBytes(mem, a, UnravelC(k - 1, a.shape))])

\* obj.tolist(): a number for an empty shape, else nested lists by dimension.
RECURSIVE ToListFrom(_, _, _)
ToListFrom(mem, a, prefix) ==
    IF Len(prefix) = Len(a.shape) THEN PyNum(Item(mem, a, prefix))
    ELSE PyList([i \in 1..a.shape[Len(prefix) + 1] |->
                    ToListFrom(mem, a, Append(prefix, i - 1))])
tolist(mem, a) == ToListFrom(mem, a, <<>>)

\* ------------------------------------------------------------- the heap
\* A heap is [objs, mem, transient, tab]: the ndarrays by id, the byte buffers
\* by id, the ids of buffers that only lived during a decode, and the engine's
\* identity table (encoded object id -> restored object id).
EmptyHeap == [objs |-> <<>>, mem |-> <<>>, transient |-> {}, tab |-> <<>>]

Ok(h, r) == [h |-> h, res |-> r, err |-> ""]
Fail(h, e) == [h |-> h, res |-> 0, err |-> e]

\* A new array object a on heap h.
NewObj(h, a) == Ok([h EXCEPT !.objs = Append(@, a)], Len(h.objs) + 1)

\* A new array owning a new buffer holding `bytes`.
NewOwned(h, dt, shape, strides, bytes) ==
    NewObj([h EXCEPT !.mem = Append(@, bytes)],
           [dtype |-> dt, shape |-> shape, strides |-> strides,
            buf |-> Len(h.mem) + 1, off |-> 0, base |-> 0])

\* np.array(values, ...) discovers the shape from the nesting.
RECURSIVE DiscoverShape(_)
DiscoverShape(x) ==
    IF ~IsList(x) THEN <<>>
    ELSE IF Len(x.v) = 0 THEN <<0>>
    ELSE <<Len(x.v)>> \o DiscoverShape(x.v[1])

RECURSIVE GetItem(_, _)
GetItem(x, idx) == IF idx = <<>> THEN x.v ELSE GetItem(x.v[Head(idx) + 1], Tail(idx))

\* The bytes of a new buffer holding the nested values in the given order.
BytesInOrder(values, dt, shape, order) ==
    Concat([m \in 1..Size(shape) |->
              BytesOfElem(dt, GetItem(values,
                  IF order = "F" THEN UnravelF(m - 1, shape)
                                 ELSE UnravelC(m - 1, shape)))])

ArrayOfShape(h, values, dt, shape, order) ==
    NewOwned(h, dt, shape, NaturalStrides(shape, ItemSize(dt), order),
             BytesInOrder(values, dt, shape, order))

\* np.array(values, dtype=dt, order=order): a new array owning a new buffer laid
\* out in `order`.
np_array(h, values, dt, order) ==
    IF dt \notin DTypes THEN Fail(h, "TypeError")
    ELSE ArrayOfShape(h, values, dt, DiscoverShape(values), order)

\* a.copy(): a new C-ordered array owning a new buffer.
CopyOf(h, a) ==
    NewOwned(h, a.dtype, a.shape, CStrides(a.shape, ItemSize(a.dtype)), tobytes(h.mem, a))
copy(h, oid) == CopyOf(h, h.objs[oid])

\* a.reshape(shape): a view of a C-contiguous array, else of a copy of it;
\* fails when the element counts differ.
ReshapeOf(h, oid, a, shape) ==
    IF Size(shape) # Size(a.shape) THEN Fail(h, "ValueError")
    ELSE IF c_contiguous(a)
    THEN NewObj(h, [a EXCEPT !.shape = shape,
                             !.strides = CStrides(shape, ItemSize(a.dtype)),
                             !.base = oid])
    ELSE NewOwned(h, a.dtype, shape, CStrides(shape, ItemSize(a.dtype)), tobytes(h.mem, a))
reshape(h, oid, shape) == ReshapeOf(h, oid, h.objs[oid], shape)

\* Lowest and highest byte an array of this shape and strides touches,
\* relative to its first element.
LowExtent(shape, strides) ==
    Sum([i \in 1..Len(shape) |-> Min2(0, (shape[i] - 1) * strides[i])])
HighExtent(shape, strides) ==
    Sum([i \in 1..Len(shape) |-> Max2(0, (shape[i] - 1) * strides[i])])

\* The bytes np.ndarray takes the buffer to hold when strides are given: an
\* empty buffer counts as one of the requested size.
CheckedLen(len, isz, shape) == IF len = 0 THEN Size(shape) * isz ELSE len

\* The bytes past the first element that the strides reach (none for an
\* array without elements).
UpperBound(isz, shape, s) == IF Size(shape) = 0 THEN 0 ELSE HighExtent(shape, s) + isz
LowerBound(shape, s) == IF Size(shape) = 0 THEN 0 ELSE LowExtent(shape, s)

\* The buffer check of np.ndarray without strides: "buffer is too small for
\* requested array" when the buffer is shorter than offset + size * itemsize.
\* (MutTooSmall: the check as an exact-length comparison.)
MutTooSmall(len, isz, shape, offset) == len # offset + Size(shape) * isz
TooSmall(len, isz, shape, offset) == len < offset + Size(shape) * isz

\* The argument checks of np.ndarray(buffer=...): "" when they pass.
NdarrayError(len, isz, shape, offset, stridesOpt) ==
    IF offset < 0 THEN "ValueError"
    ELSE IF stridesOpt = {}
    THEN IF TooSmall(len, isz, shape, offset) THEN "TypeError" ELSE ""
    ELSE IF \E s \in stridesOpt :
               \/ Len(s) # Len(shape)
               \/ UpperBound(isz, shape, s) > CheckedLen(len, isz, shape) - offset
               \/ LowerBound(shape, s) < 0 - offset
    THEN "ValueError"
    ELSE ""

NdarrayOver(h, buf, start, len, dt, shape, offset, stridesOpt, order, base, e) ==
    IF e # "" THEN Fail(h, e)
    ELSE NewObj(h, [dtype |-> dt, shape |-> shape,
                    strides |-> IF stridesOpt = {}
                                THEN NaturalStrides(shape, ItemSize(dt), order)
                                ELSE CHOOSE s \in stridesOpt : TRUE,
                    buf |-> buf, off |-> start + offset, base |-> base])

\* np.ndarray(buffer=, dtype=, shape=, offset=, strides=, order=) over the bytes
\* start .. start+len-1 of buffer buf.  shape and strides are sets: empty for
\* None, else one sequence.  The result's base is the object behind the buffer.
ndarray(h, buf, start, len, dt, shapeOpt, offset, stridesOpt, order, base) ==
    IF dt \notin DTypes \/ shapeOpt = {} THEN Fail(h, "TypeError")
    ELSE NdarrayOver(h, buf, start, len, dt, CHOOSE s \in shapeOpt : TRUE, offset,
                     stridesOpt, order, base,
                     NdarrayError(len, ItemSize(dt), CHOOSE s \in shapeOpt : TRUE,
                                  offset, stridesOpt))

\* len(arr.data): the bytes a contiguous array spans.
NBytes(a) == Size(a.shape) * ItemSize(a.dtype)

\* ------------------------------------------------- base64 and compression
\* Text is a sequence of base64 digits 0..63, 64 standing for the pad "=".
B64Group(bs) ==
    LET b0 == bs[1]
        b1 == IF Len(bs) >= 2 THEN bs[2] ELSE 0
        b2 == IF Len(bs) >= 3 THEN bs[3] ELSE 0
    IN  << b0 \div 4,
           (b0 % 4) * 16 + b1 \div 16,
           IF Len(bs) >= 2 THEN (b1 % 16) * 4 + b2 \div 64 ELSE 64,
           IF Len(bs) >= 3 THEN b2 % 64 ELSE 64 >>

\* jsonpickle.util.b64encode
b64encode(bytes) ==
    Concat([g \in 1..((Len(bytes) + 2) \div 3) |->
               B64Group(SubSeq(bytes, 3 * g - 2, Min2(3 * g, Len(bytes))))])

B64Ungroup(q) ==
    LET s2 == IF q[3] = 64 THEN 0 ELSE q[3]
        s3 == IF q[4] = 64 THEN 0 ELSE q[4]
        all == << q[1] * 4 + q[2] \div 16, (q[2] % 16) * 16 + s2 \div 4, (s2 % 4) * 64 + s3 >>
    IN  SubSeq(all, 1, IF q[3] = 64 THEN 1 ELSE IF q[4] = 64 THEN 2 ELSE 3)

\* jsonpickle.util.b64decode: [ok, bytes]; a value that is no text, or text whose
\* length is no multiple of four, is an error.
b64decode(x) ==
    IF x.t # "str" THEN [ok |-> FALSE, bytes |-> <<>>, err |-> "TypeError"]
    ELSE IF Len(x.v) % 4 # 0 THEN [ok |-> FALSE, bytes |-> <<>>, err |-> "binascii.Error"]
    ELSE [ok |-> TRUE, err |-> "",
          bytes |-> Concat([g \in 1..(Len(x.v) \div 4) |->
                              B64Ungroup(SubSeq(x.v, 4 * g - 3, 4 * g))])]

\* zlib.compress / zlib.decompress, as a framed stream: a header byte, the
\* data, a checksum byte.  decompress rejects a stream whose frame is wrong.
ZHeader == 120
Checksum(bytes) == Sum(bytes) % 251
compress(bytes) == <<ZHeader>> \o bytes \o <<Checksum(bytes)>>
decompress(z) ==
    IF Len(z) >= 2 /\ z[1] = ZHeader
       /\ z[Len(z)] = Checksum(SubSeq(z, 2, Len(z) - 1))
    THEN [ok |-> TRUE, bytes |-> SubSeq(z, 2, Len(z) - 1), err |-> ""]
    ELSE [ok |-> FALSE, bytes |-> <<>>, err |-> "zlib.error"]

\* ----------------------------------------------------------------- encode
\* data[k] = v
SetKey(data, k, v) == (k :> v) @@ data
EmptyData == [k \in {} |-> 0]

EncOk(data, seen, w) == [data |-> data, seen |-> seen, warned |-> w, err |-> ""]
EncFail(seen, w, e) == [data |-> EmptyData, seen |-> seen, warned |-> w, err |-> e]

\* if obj.flags.f_contiguous: data['order'] = 'F'
PutOrder(a, data) == IF f_contiguous(a) THEN SetKey(data, "order", "F") ELSE data

\* Has the shape a dimension of length zero (`0 in obj.shape`)
HasZero(shape) == \E i \in 1..Len(shape) : shape[i] = 0

\* NumpyNDArrayHandler.flatten
NestedFlatten(mem, a, data) ==
    PutOrder(a,
        IF HasZero(a.shape)
        THEN SetKey(SetKey(flatten_dtype(a.dtype, data), "values", tolist(mem, a)),
                    "shape", a.shape)
        ELSE SetKey(flatten_dtype(a.dtype, data), "values", tolist(mem, a)))

\* buffer = obj.tobytes(order=None), compressed when a compression is set
PackBuffer(raw) == IF compression THEN compress(raw) ELSE raw

\* The binary branch of NumpyNDArrayHandlerBinary.flatten
BinaryBranch(mem, a, data) ==
    PutOrder(a,
        SetKey(SetKey(flatten_dtype(a.dtype, data),
                      "values", PyStr(b64encode(PackBuffer(tobytes(mem, a))))),
               "shape", a.shape))

\* `self.size_treshold > obj.size`: "yes", "no", or "TypeError" (Python 3
\* does not order None against an int).
ThresholdAbove(size) ==
    IF size_treshold = NoneT THEN "TypeError"
    ELSE IF size_treshold > size THEN "yes" ELSE "no"

\* Does flatten take the nested (json) branch, the comparison having given `above`
StoreAsJson(above) == above = "yes" \/ size_treshold = NoneT

\* NumpyNDArrayHandlerBinary.flatten
BinaryFlatten(mem, a, data, seen, w) ==
    IF ThresholdAbove(Size(a.shape)) = "TypeError" THEN EncFail(seen, w, "TypeError")
    ELSE IF StoreAsJson(ThresholdAbove(Size(a.shape)))
    THEN EncOk(NestedFlatten(mem, a, data), seen, w)
    ELSE EncOk(BinaryBranch(mem, a, data), seen, w)

\* obj.ctypes.data: the address of the first element
ctypes_data(a) == a.buf * 4096 + a.off

PutOffset(offset, data) == IF offset # 0 THEN SetKey(data, "offset", offset) ELSE data
\* if not obj.data.c_contiguous: data['strides'] = obj.strides
\* (MutPutStrides: the test made on column-major contiguity.)
MutPutStrides(a, data) == IF ~f_contiguous(a) THEN SetKey(data, "strides", a.strides) ELSE data
PutStrides(a, data) == IF ~c_contiguous(a) THEN SetKey(data, "strides", a.strides) ELSE data

\* The by-reference branch of NumpyNDArrayHandlerView.flatten, the base b
\* flattened to `based`.
ViewBranch(a, b, based, data) ==
    PutStrides(a,
        PutOffset(ctypes_data(a) - ctypes_data(b),
            SetKey(SetKey(flatten_dtype(a.dtype, data), "base", based),
                   "shape", a.shape)))

ViewBranchOf(a, b, r) ==
    IF r.err # "" THEN EncFail(r.seen, r.warned, r.err)
    ELSE EncOk(ViewBranch(a, b, r.out, EmptyData), r.seen, r.warned)

\* The deep-copy branch of NumpyNDArrayHandlerView.flatten: c is obj.copy().
CopyBranch(c, seen, w) ==
    IF mode = "raise" THEN EncFail(seen, w, "ValueError")
    ELSE BinaryFlatten(c.h.mem, c.h.objs[c.res], EmptyData, seen,
                       IF mode = "warn" THEN w + 1 ELSE w)

\* The engine's flatten of one ndarray: a reference to an object it already
\* met in this call, else the registered handler's output.
RECURSIVE context_flatten(_, _, _, _)
RECURSIVE ViewFlatten(_, _, _, _)

Flattened(oid, r) ==
    [out |-> [t |-> "obj", id |-> oid, v |-> r.data],
     seen |-> r.seen, warned |-> r.warned, err |-> r.err]

context_flatten(H, oid, seen, w) ==
    IF oid \in seen
    THEN [out |-> [t |-> "id", id |-> oid, v |-> EmptyData],
          seen |-> seen, warned |-> w, err |-> ""]
    ELSE Flattened(oid, ViewFlatten(H, oid, seen \cup {oid}, w))

\* NumpyNDArrayHandlerView.flatten
ViewFlatten(H, oid, seen, w) ==
    IF H.objs[oid].base = 0
    THEN BinaryFlatten(H.mem, H.objs[oid], EmptyData, seen, w)
    ELSE IF H.objs[oid].base > 0 /\ contiguous(H.objs[H.objs[oid].base])
    THEN ViewBranchOf(H.objs[oid], H.objs[H.objs[oid].base],
                      context_flatten(H, H.objs[oid].base, seen, w))
    ELSE CopyBranch(copy(H, oid), seen, w)

\* One top-level call: the engine flattens the roots in order, sharing its
\* identity table; the first exception ends the call.
RECURSIVE EncodeRoots(_, _, _, _, _)
EncodeNext(H, roots, acc, r) ==
    IF r.err # "" THEN [wire |-> <<>>, warned |-> r.warned, err |-> r.err]
    ELSE EncodeRoots(H, Tail(roots), r.seen, r.warned, Append(acc, r.out))
EncodeRoots(H, roots, seen, w, acc) ==
    IF roots = <<>> THEN [wire |-> acc, warned |-> w, err |-> ""]
    ELSE EncodeNext(H, roots, acc, context_flatten(H, Head(roots), seen, w))

\* ----------------------------------------------------------------- decode
\* data.get(k, default), and data.get(k) as a set (empty for None)
DictGet(data, k, default) == IF k \in DOMAIN data THEN data[k] ELSE default
Opt(data, k) == IF k \in DOMAIN data THEN {data[k]} ELSE {}

\* arr.reshape(shape) when the payload has a shape
ReshapeIfShape(r, data) ==
    IF r.err # "" THEN r
    ELSE IF "shape" \in DOMAIN data THEN reshape(r.h, r.res, data["shape"])
    ELSE r

\* NumpyNDArrayHandler.restore
NestedRestore(h, data) ==
    ReshapeIfShape(np_array(h, data["values"], restore_dtype(data),
                            DictGet(data, "order", "C")), data)

\* The decoded bytes become a transient buffer of the heap.
Transient(h, bytes) ==
    [h EXCEPT !.mem = Append(@, bytes), !.transient = @ \cup {Len(h.mem) + 1}]

\* .copy(): "make a copy, to force the result to own the data"
OwnCopy(a) == IF a.err # "" THEN a ELSE copy(a.h, a.res)

\* arr = np.ndarray(buffer=buffer, dtype, shape, order).copy()
FromBuffer(h, data, z) ==
    IF ~z.ok THEN Fail(h, z.err)
    ELSE OwnCopy(ndarray(Transient(h, z.bytes), Len(h.mem) + 1, 0, Len(z.bytes),
                         restore_dtype(data), Opt(data, "shape"), 0, {},
                         DictGet(data, "order", "C"), Foreign))

\* if self.compression: buffer = self.compression.decompress(buffer)
Unpack(d) == IF compression /\ d.ok THEN decompress(d.bytes) ELSE d

\* The binary branch of NumpyNDArrayHandlerBinary.restore.
BinaryDecode(h, data) == FromBuffer(h, data, Unpack(b64decode(data["values"])))

\* NumpyNDArrayHandlerBinary.restore
BinaryRestore(h, data) ==
    IF IsList(data["values"]) THEN NestedRestore(h, data) ELSE BinaryDecode(h, data)

\* assert base.data.contiguous
\* (MutBaseAccepted: the assertion left out.)
MutBaseAccepted(base) == TRUE
BaseAccepted(base) == contiguous(base)

\* The order np.ndarray takes for the strides it is not given: its default.
\* (MutDefaultOrder: the order of the base.)
MutDefaultOrder(base) == IF f_contiguous(base) /\ ~c_contiguous(base) THEN "F" ELSE "C"
DefaultOrder(base) == "C"

\* The ndarray that owns the data of object b: numpy keeps as a view's base
\* the array at the end of the chain of ndarray bases.
OwnerOf(h, b) == IF h.objs[b].base > 0 THEN h.objs[b].base ELSE b

\* The view branch of NumpyNDArrayHandlerView.restore, the base restored as
\* object b: an array over base.data, a memoryview of b.
ViewDecode(h, b, data) ==
    IF ~BaseAccepted(h.objs[b]) THEN Fail(h, "AssertionError")
    ELSE ndarray(h, h.objs[b].buf, h.objs[b].off, NBytes(h.objs[b]), restore_dtype(data),
                 Opt(data, "shape"), DictGet(data, "offset", 0),
                 Opt(data, "strides"), DefaultOrder(h.objs[b]), OwnerOf(h, b))

ViewDecodeOf(r, data) == IF r.err # "" THEN r ELSE ViewDecode(r.h, r.res, data)

RECURSIVE context_restore(_, _)
RECURSIVE ViewRestore(_, _)

Registered(id, r) ==
    IF r.err # "" THEN r ELSE Ok([r.h EXCEPT !.tab = (id :> r.res) @@ @], r.res)

\* The engine's restore of one flattened ndarray: the object it already
\* restored for a reference, else the handler's result, which it registers.
context_restore(h, x) ==
    IF x.t = "id"
    THEN IF x.id \in DOMAIN h.tab THEN Ok(h, h.tab[x.id]) ELSE Fail(h, "KeyError")
    ELSE Registered(x.id, ViewRestore(h, x.v))

\* NumpyNDArrayHandlerView.restore
ViewRestore(h, data) ==
    IF "base" \notin DOMAIN data THEN BinaryRestore(h, data)
    ELSE ViewDecodeOf(context_restore(h, data["base"]), data)

\* One top-level call: the roots are restored in order; the first exception
\* ends the call and nothing is returned.
RECURSIVE DecodeRoots(_, _, _)
DecodeNext(w, acc, r) ==
    IF r.err # "" THEN [h |-> r.h, res |-> <<>>, err |-> r.err]
    ELSE DecodeRoots(r.h, Tail(w), Append(acc, r.res))
DecodeRoots(h, w, acc) ==
    IF w = <<>> THEN [h |-> h, res |-> acc, err |-> ""]
    ELSE DecodeNext(w, acc, context_restore(h, Head(w)))

\* ------------------------------------------------------------- the inputs
Shapes == UNION {[1..n -> 0..MaxDim] : n \in 0..MaxNdim}

\* An array that owns a contiguous buffer, in C or F order.
Owned(dt, shape, order) ==
    [dtype |-> dt, shape |-> shape,
     strides |-> NaturalStrides(shape, ItemSize(dt), order),
     buf |-> 1, off |-> 0, base |-> 0]

\* The buffer of the inputs: every byte differs from every other.
Fill(n) == [j \in 1..n |-> j]

\* a[..., start::step, ...] on dimension dim: an empty result points at the
\* start of its base and keeps the stride.
SliceDim(a, dim, start, step) ==
    LET d == a.shape[dim]
        n == IF step > 0
             THEN IF start >= d THEN 0 ELSE (d - start + step - 1) \div step
             ELSE start + 1
    IN  IF n <= 0
        THEN [a EXCEPT !.shape[dim] = 0]
        ELSE [a EXCEPT !.shape[dim] = n,
                       !.strides[dim] = @ * step,
                       !.off = @ + start * a.strides[dim]]

ViewKinds == {"full", "tail", "step", "rev", "T", "col"}

\* The views numpy's basic indexing makes of array a, as arrays with the
\* given base.
ViewOf(a, kind, base) ==
    LET v == CASE kind = "full" -> a
               [] kind = "tail" -> SliceDim(a, 1, 1, 1)
               [] kind = "step" -> SliceDim(a, 1, 0, 2)
               [] kind = "rev" -> SliceDim(a, 1, a.shape[1] - 1, 0 - 1)
               [] kind = "T" -> [a EXCEPT !.shape = Reverse(a.shape),
                                         !.strides = Reverse(a.strides)]
               [] kind = "col" -> SliceDim(a, 2, 1, 1)
    IN  [v EXCEPT !.base = base]

KindApplies(kind, shape) ==
    CASE kind \in {"tail", "step", "rev"} -> Len(shape) >= 1
      [] kind = "col" -> Len(shape) >= 2
      [] OTHER -> TRUE

OwnedArrays == {Owned(dt, shape, order) : dt \in DTypes, shape \in Shapes, order \in {"C", "F"}}

\* The heap of a call's objects, all over one buffer as large as array a.
HeapOf(objs, a) == [EmptyHeap EXCEPT !.objs = objs, !.mem = <<Fill(NBytes(a))>>]

\* What one top-level encode call is given: an owned array; an owned array and
\* a view of it (both, or the view alone).
Scenes ==
    {[h |-> HeapOf(<<a>>, a), roots |-> <<1>>] : a \in OwnedArrays}
    \cup {[h |-> HeapOf(<<sc[1], ViewOf(sc[1], sc[2], 1)>>, sc[1]), roots |-> sc[3]] :
            sc \in {x \in OwnedArrays \X ViewKinds \X {<<1, 2>>, <<2>>} :
                      KindApplies(x[2], x[1].shape)}}

\* An array over the buffer of an object that is no ndarray (np.frombuffer,
\* np.ndarray(buffer=...)).
ForeignScenes ==
    {[h |-> HeapOf(<<ViewOf(sc[1], sc[2], Foreign)>>, sc[1]), roots |-> <<1>>] :
        sc \in {x \in OwnedArrays \X ViewKinds : KindApplies(x[2], x[1].shape)}}

NoScene == [h |-> EmptyHeap, roots |-> <<>>]

\* ------------------------------------------------------------ the actions
Thresholds == {NoneT, DefaultSizeTreshold} \cup (0..MaxThreshold)
Modes == {"warn", "raise", "silent"}

\* The handler's class attributes are set before the call; mode keeps its
\* default.
Init ==
    /\ size_treshold \in Thresholds
    /\ compression \in BOOLEAN
    /\ mode = "warn"
    /\ pc = "ready"
    /\ src = NoScene
    /\ wire = <<>>
    /\ warned = 0
    /\ err = ""
    /\ out = EmptyHeap
    /\ res = <<>>
    /\ tamper = "none"

\* jsonpickle.encode of the roots of one scene.
EncodeOf(scenes) ==
    /\ pc = "ready"
    /\ \E sc \in scenes :
          \E r \in {EncodeRoots(sc.h, sc.roots, {}, 0, <<>>)} :
              /\ src' = sc
              /\ wire' = r.wire
              /\ warned' = r.warned
              /\ err' = r.err
              /\ pc' = IF r.err = "" THEN "encoded" ELSE "encode_failed"
    /\ UNCHANGED <<size_treshold, compression, mode, out, res, tamper>>

Encode == EncodeOf(Scenes)
EncodeForeign == EncodeOf(ForeignScenes)

\* The payload of the last root, and the wire with it replaced.
LastData == wire[Len(wire)].v
WithLast(x) == [wire EXCEPT ![Len(wire)] = x]
WithLastData(data) == WithLast([wire[Len(wire)] EXCEPT !.v = data])
IsBinaryForm(data) == "values" \in DOMAIN data /\ data["values"].t = "str"

\* The bytes a binary-form payload carries, and the text carrying given bytes.
PayloadBytes(data) == Unpack(b64decode(data["values"])).bytes
TextOf(bytes) == PyStr(b64encode(PackBuffer(bytes)))

\* A corrupted payload: the buffer of a binary-form payload loses its last k
\* bytes, or gains k bytes.
Truncate ==
    /\ pc = "encoded" /\ tamper = "none"
    /\ IsBinaryForm(LastData)
    /\ \E k \in 1..MaxTamper :
          \E bytes \in {PayloadBytes(LastData)} :
              /\ Len(bytes) >= k
              /\ wire' = WithLastData(SetKey(LastData, "values",
                                   TextOf(SubSeq(bytes, 1, Len(bytes) - k))))
    /\ tamper' = "truncate"
    /\ UNCHANGED <<size_treshold, compression, mode, pc, src, warned, err, out, res>>

Extend ==
    /\ pc = "encoded" /\ tamper = "none"
    /\ IsBinaryForm(LastData)
    /\ \E k \in 1..MaxTamper :
          wire' = WithLastData(SetKey(LastData, "values",
                       TextOf(PayloadBytes(LastData) \o [j \in 1..k |-> 0])))
    /\ tamper' = "extend"
    /\ UNCHANGED <<size_treshold, compression, mode, pc, src, warned, err, out, res>>

\* A hand-made payload: a view payload without its 'strides'.
DropStrides ==
    /\ pc = "encoded" /\ tamper = "none"
    /\ "strides" \in DOMAIN LastData
    /\ wire' = WithLastData([k \in DOMAIN LastData \ {"strides"} |-> LastData[k]])
    /\ tamper' = "dropstrides"
    /\ UNCHANGED <<size_treshold, compression, mode, pc, src, warned, err, out, res>>

\* A hand-made payload: a view payload whose base is the only root's payload,
\* itself a view.
Rebase ==
    /\ pc = "encoded" /\ tamper = "none"
    /\ Len(wire) = 1
    /\ "base" \in DOMAIN LastData
    /\ wire' = WithLast([t |-> "obj", id |-> Len(src.h.objs) + 1,
                         v |-> SetKey(SetKey(SetKey(EmptyData,
                                  "dtype", LastData["dtype"]),
                                  "base", wire[Len(wire)]),
                                  "shape", LastData["shape"])])
    /\ tamper' = "rebase"
    /\ UNCHANGED <<size_treshold, compression, mode, pc, src, warned, err, out, res>>

\* jsonpickle.decode of the wire.
Decode ==
    /\ pc = "encoded"
    /\ \E r \in {DecodeRoots(EmptyHeap, wire, <<>>)} :
           /\ out' = r.h
           /\ res' = r.res
           /\ err' = r.err
           /\ pc' = IF r.err = "" THEN "decoded" ELSE "decode_failed"
    /\ UNCHANGED <<size_treshold, compression, mode, src, wire, warned, tamper>>

\* The caller stores 0 in the first byte of the first element of the last
\* restored array.
Write ==
    /\ pc = "decoded" /\ tamper = "none" /\ Len(res) = 2
    /\ LET v == out.objs[res[2]]
       IN  /\ Size(v.shape) > 0
           /\ out' = [out EXCEPT !.mem[v.buf][v.off + 1] = 0]
    /\ pc' = "written"
    /\ UNCHANGED <<size_treshold, compression, mode, src, wire, warned, err, res, tamper>>

Next == Encode \/ Truncate \/ Extend \/ DropStrides \/ Rebase \/ Decode \/ Write

Spec == Init /\ [][Next]_vars

\* The alias policy: every mode, and arrays whose base is a foreign object.
InitPolicy ==
    /\ size_treshold \in Thresholds
    /\ compression \in BOOLEAN
    /\ mode \in Modes
    /\ pc = "ready"
    /\ src = NoScene
    /\ wire = <<>>
    /\ warned = 0
    /\ err = ""
    /\ out = EmptyHeap
    /\ res = <<>>
    /\ tamper = "none"

NextPolicy == EncodeForeign \/ Truncate \/ Extend \/ Decode

SpecPolicy == InitPolicy /\ [][NextPolicy]_vars

\* ------------------------------------------------------------- properties
Finished == pc \in {"decoded", "decode_failed"}
Untouched == tamper = "none"

\* The call was given one array that owns its data.
OneOwned == src.roots = <<1>> /\ Len(src.h.objs) = 1 /\ src.h.objs[1].base = 0
\* The call was given an owned base (object 1) and a view of it (object 2).
BaseAndView == Len(src.h.objs) = 2
\* The call was given one array over a foreign buffer.
OneForeign == src.roots = <<1>> /\ Len(src.h.objs) = 1 /\ src.h.objs[1].base = Foreign

A1 == src.h.objs[1]
V2 == src.h.objs[2]
\* The restored object of the k-th root, and of the encoded object id.
Restored(k) == out.objs[res[k]]
RestoredOf(id) == out.objs[out.tab[id]]

Flags(a) == <<c_contiguous(a), f_contiguous(a)>>

\* Equal in dtype, shape, order and element values.
SameArray(a, d) ==
    /\ d.dtype = a.dtype
    /\ d.shape = a.shape
    /\ Flags(d) = Flags(a)
    /\ Elements(out.mem, d) = Elements(src.h.mem, a)

\* The bytes of the buffer a contiguous array spans.
BufferOf(mem, a) == SubSeq(mem[a.buf], a.off + 1, a.off + NBytes(a))

NestedMode == size_treshold # NoneT /\ Size(A1.shape) < size_treshold
BinaryMode == size_treshold # NoneT /\ Size(A1.shape) >= size_treshold

\* C1: an owned array below the threshold (empty shape, zero-length dimension,
\* row-major or column-major) that was encoded and decoded comes back equal in
\* dtype, shape, order and element values.
C1_NestedRoundTrip ==
    (Finished /\ Untouched /\ OneOwned /\ NestedMode)
        => (pc = "decoded" /\ SameArray(A1, Restored(1)))

\* C2: an owned array at or above the threshold comes back with its dtype,
\* shape and order, owning a buffer byte-identical to the original's, which is
\* not the transient decode buffer.
C2_BinaryRoundTrip ==
    (Finished /\ Untouched /\ OneOwned /\ BinaryMode)
        => /\ pc = "decoded"
           /\ Restored(1).dtype = A1.dtype
           /\ Restored(1).shape = A1.shape
           /\ Flags(Restored(1)) = Flags(A1)
           /\ Restored(1).base = 0
           /\ Restored(1).buf \notin out.transient
           /\ BufferOf(out.mem, Restored(1)) = BufferOf(src.h.mem, A1)

\* The flattened objects of the wire that carry object id, at any depth.
PayloadsOf(id) ==
    {k \in 1..Len(wire) : wire[k].t = "obj" /\ wire[k].id = id}
    \cup {0 - k : k \in {j \in 1..Len(wire) :
                          /\ wire[j].t = "obj" /\ "base" \in DOMAIN wire[j].v
                          /\ wire[j].v["base"].t = "obj"
                          /\ wire[j].v["base"].id = id}}

ValueEqualCopy(a, d) ==
    /\ d.dtype = a.dtype
    /\ d.shape = a.shape
    /\ Elements(out.mem, d) = Elements(src.h.mem, a)
    /\ d.buf \notin out.transient

\* C4: an array whose base is no contiguous ndarray: 'raise' fails the encode
\* and emits nothing; 'warn' emits one diagnostic and 'silent' none, and both
\* emit the by-value payload of a copy (no 'base'), which decodes to a
\* value-equal array of its own.
C4_ForeignBaseFallback ==
    (pc # "ready" /\ Untouched /\ OneForeign)
        => IF mode = "raise"
           THEN pc = "encode_failed" /\ err = "ValueError" /\ wire = <<>> /\ warned = 0
           ELSE /\ pc \notin {"encode_failed", "decode_failed"}
                /\ warned = (IF mode = "warn" THEN 1 ELSE 0)
                /\ "base" \notin DOMAIN wire[1].v
                /\ "values" \in DOMAIN wire[1].v
                /\ pc = "decoded" => ValueEqualCopy(A1, Restored(1))

Corrupted == tamper \in {"truncate", "extend"}

\* C5 as stated: a binary payload whose buffer is shorter or longer than
\* product(shape) * itemsize is rejected and no array is returned.
C5_CorruptRejected ==
    (Finished /\ Corrupted) => (pc = "decode_failed" /\ err = "TypeError" /\ res = <<>>)

\* C5 amended: a binary payload whose buffer is shorter than product(shape) *
\* itemsize is rejected ("buffer is too small") and no array is returned; one
\* whose buffer is longer is accepted, and the array of the recorded shape is
\* returned.
C5_ShortRejectedLongAccepted ==
    /\ (Finished /\ tamper = "truncate")
          => (pc = "decode_failed" /\ err = "TypeError" /\ res = <<>>)
    /\ (Finished /\ tamper = "extend")
          => /\ pc = "decoded"
             /\ Restored(1).shape = LastData["shape"]
             /\ NBytes(Restored(1)) < Len(PayloadBytes(LastData))

C5_Witness ==
    /\ pc = "decoded" /\ tamper = "extend"
    /\ Size(Restored(1).shape) > 1

\* C6: with threshold T, an owned array of T - 1 elements is flattened to the
\* nested form (values is a list) and one of T elements to the binary form
\* (values is text, shape is present).
C6_ThresholdBoundary ==
    (pc = "encoded" /\ Untouched /\ OneOwned /\ size_treshold # NoneT)
        => /\ Size(A1.shape) = size_treshold - 1 => IsList(wire[1].v["values"])
           /\ Size(A1.shape) = size_treshold
                 => (wire[1].v["values"].t = "str" /\ "shape" \in DOMAIN wire[1].v)

\* C7: with size_treshold None every owned array is flattened, and to the
\* nested-value form.
C7_NullThreshold ==
    (pc # "ready" /\ OneOwned /\ size_treshold = NoneT)
        => /\ pc # "encode_failed"
           /\ Untouched => wire[1].v = NestedFlatten(src.h.mem, A1, EmptyData)

\* A flattened object that is a view payload, whether its base was restored to
\* an array that is not contiguous, and whether decode rejected it.
IsViewPayload(x) == x.t = "obj" /\ "base" \in DOMAIN x.v
InvalidBase(x) ==
    /\ x.v["base"].id \in DOMAIN out.tab
    /\ ~contiguous(out.objs[out.tab[x.v["base"].id]])
Rejected(x) ==
    /\ pc = "decode_failed" /\ err = "AssertionError" /\ res = <<>>
    /\ x.id \notin DOMAIN out.tab

\* C8: a view payload whose restored base is not contiguous ends the decode
\* with the assertion error before a view is built: nothing is returned and no
\* array over that base is registered.
C8_InvalidBaseRejected ==
    pc \in {"decoded", "decode_failed", "written"}
        => \A k \in 1..Len(wire) :
              IsViewPayload(wire[k])
                 => /\ InvalidBase(wire[k]) => Rejected(wire[k])
                    /\ IsViewPayload(wire[k].v["base"])
                          => (InvalidBase(wire[k].v["base"]) => Rejected(wire[k].v["base"]))

C8_Witness ==
    /\ pc = "decode_failed" /\ err = "AssertionError"
    /\ IsViewPayload(wire[1]) /\ InvalidBase(wire[1])

FnotC(a) == f_contiguous(a) /\ ~c_contiguous(a)

\* Is the view in the natural contiguous order of its base
InBaseOrder(v, b) == IF FnotC(b) THEN f_contiguous(v) ELSE c_contiguous(v)

\* What C9 says of 'base', 'shape' and 'offset'.
ViewKeys(d) ==
    /\ "base" \in DOMAIN d
    /\ "shape" \in DOMAIN d /\ d["shape"] = V2.shape
    /\ ("offset" \in DOMAIN d) <=> (ctypes_data(V2) - ctypes_data(A1) # 0)
    /\ "offset" \in DOMAIN d => d["offset"] = ctypes_data(V2) - ctypes_data(A1)
    /\ "strides" \in DOMAIN d => d["strides"] = V2.strides

\* C9 as stated: 'strides' is written exactly when the view is not in the
\* natural contiguous order of its base.
C9_StridesByBaseOrder ==
    (pc = "encoded" /\ Untouched /\ BaseAndView)
        => /\ ViewKeys(LastData)
           /\ ("strides" \in DOMAIN LastData) <=> ~InBaseOrder(V2, A1)

\* C9 amended: on the contiguous-base path the payload carries 'base' and
\* 'shape' always, 'offset' (the view's address minus the base's) exactly
\* when it is not zero, and 'strides' exactly when the view is not row-major
\* contiguous, whatever the order of the base.
C9_StridesUnlessRowMajor ==
    (pc = "encoded" /\ Untouched /\ BaseAndView)
        => /\ ViewKeys(LastData)
           /\ ("strides" \in DOMAIN LastData) <=> ~c_contiguous(V2)

C9_Witness ==
    /\ pc = "encoded" /\ Untouched /\ BaseAndView
    /\ FnotC(A1) /\ f_contiguous(V2) /\ "strides" \in DOMAIN LastData
    /\ "offset" \notin DOMAIN LastData

\* The restored array of the last root and the restored base of its payload.
LastRestored == out.objs[res[Len(res)]]
LastBase == out.objs[out.tab[LastData["base"].id]]

\* What C10 says of the buffer, dtype, shape and offset.
ViewBuilt(d) ==
    /\ LastRestored.buf = LastBase.buf
    /\ LastRestored.dtype = restore_dtype(d)
    /\ LastRestored.shape = d["shape"]
    /\ LastRestored.off = LastBase.off + DictGet(d, "offset", 0)
    /\ "strides" \in DOMAIN d => LastRestored.strides = d["strides"]

\* C10 as stated: without 'strides' the view gets the natural contiguous
\* strides of the base's order.
C10_DefaultStridesOfBase ==
    (pc = "decoded" /\ IsViewPayload(wire[Len(wire)]))
        => /\ ViewBuilt(LastData)
           /\ "strides" \notin DOMAIN LastData
                 => LastRestored.strides =
                       NaturalStrides(LastData["shape"], ItemSize(LastRestored.dtype),
                                      IF FnotC(LastBase) THEN "F" ELSE "C")

\* C10 amended: a decoded view payload is an array over the restored base's
\* buffer with the recorded dtype and shape, at offset 0 when 'offset' is
\* absent, and, when 'strides' is absent, with row-major contiguous strides,
\* whatever the order of the base.
C10_DefaultStridesRowMajor ==
    (pc = "decoded" /\ IsViewPayload(wire[Len(wire)]))
        => /\ ViewBuilt(LastData)
           /\ "strides" \notin DOMAIN LastData
                 => LastRestored.strides =
                       CStrides(LastData["shape"], ItemSize(LastRestored.dtype))

C10_Witness ==
    /\ pc = "decoded" /\ Untouched /\ IsViewPayload(wire[Len(wire)])
    /\ "strides" \notin DOMAIN LastData /\ "offset" \notin DOMAIN LastData
    /\ FnotC(LastBase)
    /\ LastRestored.strides # FStrides(LastRestored.shape, ItemSize(LastRestored.dtype))

====
